---------------------------- MODULE Spec2Model ----------------------------
(***************************************************************************)
(* Model of password-hash/src/value.rs: the PHC parameter `Value`, a       *)
(* validated borrowed view over a text, with its accessors, its decimal    *)
(* interpreter and its conversions.                                        *)
(*                                                                         *)
(* A text (Rust `&str`) is a sequence of Unicode scalar values (code       *)
(* points); its byte length is the length of its UTF-8 encoding.  A u32 is *)
(* a pair <<hi, lo>> of 16-bit limbs (value hi * 2^16 + lo), so that the   *)
(* 32-bit width and its overflow are explicit.                             *)
(***************************************************************************)
EXTENDS Integers, Sequences, FiniteSets, TLC

VARIABLES input, value, op, arg, result

vars == <<input, value, op, arg, result>>

(***************************************************************************)
(* Characters                                                              *)
(***************************************************************************)

\* Code points (Unicode scalar values) of the characters the model names.
Code ==
  ("0" :> 48) @@ ("1" :> 49) @@ ("2" :> 50) @@ ("3" :> 51) @@ ("4" :> 52) @@
  ("5" :> 53) @@ ("6" :> 54) @@ ("7" :> 55) @@ ("8" :> 56) @@ ("9" :> 57) @@
  ("A" :> 65) @@ ("X" :> 88) @@ ("Z" :> 90) @@
  ("a" :> 97) @@ ("b" :> 98) @@ ("c" :> 99) @@ ("d" :> 100) @@
  ("x" :> 120) @@ ("y" :> 121) @@ ("z" :> 122) @@
  ("/" :> 47) @@ ("+" :> 43) @@ ("." :> 46) @@ ("-" :> 45) @@
  ("!" :> 33) @@ ("," :> 44) @@ (":" :> 58) @@ (";" :> 59) @@ ("@" :> 64) @@
  ("[" :> 91) @@ ("grave" :> 96) @@ ("{" :> 123) @@
  ("e-acute" :> 233) @@   \* U+00E9, two bytes in UTF-8
  ("euro" :> 8364)        \* U+20AC, three bytes in UTF-8

\* Number of bytes of the UTF-8 encoding of one character (char::len_utf8).
len_utf8(c) ==
  IF c < 128 THEN 1 ELSE IF c < 2048 THEN 2 ELSE IF c < 65536 THEN 3 ELSE 4

RECURSIVE ByteLenFrom(_, _)
ByteLenFrom(s, i) ==
  IF i > Len(s) THEN 0 ELSE len_utf8(s[i]) + ByteLenFrom(s, i + 1)

\* `str::len` / `str::as_bytes().len()`: the length of the text in bytes.
str_len(s) == ByteLenFrom(s, 1)

\* `str::is_empty`.
str_is_empty(s) == str_len(s) = 0

\* UTF-8 encoding of one character.
encode_utf8(c) ==
  IF c < 128 THEN <<c>>
  ELSE IF c < 2048 THEN <<192 + (c \div 64), 128 + (c % 64)>>
  ELSE IF c < 65536
    THEN <<224 + (c \div 4096), 128 + ((c \div 64) % 64), 128 + (c % 64)>>
    ELSE <<240 + (c \div 262144), 128 + ((c \div 4096) % 64),
           128 + ((c \div 64) % 64), 128 + (c % 64)>>

RECURSIVE BytesFrom(_, _)
BytesFrom(s, i) ==
  IF i > Len(s) THEN <<>> ELSE encode_utf8(s[i]) \o BytesFrom(s, i + 1)

\* `str::as_bytes`.
str_as_bytes(s) == BytesFrom(s, 1)

(***************************************************************************)
(* Results                                                                 *)
(***************************************************************************)

Ok(v) == [tag |-> "Ok", val |-> v]
TooLong == [tag |-> "TooLong", val |-> <<>>]
Empty == [tag |-> "Empty", val |-> <<>>]
InvalidChar(c) == [tag |-> "InvalidChar", val |-> <<c>>]
NoResult == [tag |-> "None", val |-> <<>>]

(***************************************************************************)
(* Value::new                                                              *)
(***************************************************************************)

MAX_LENGTH == 48

\* is_char_valid with the '-' arm of the pattern left out.
is_char_valid_no_minus(c) ==
  \/ (65 <= c /\ c <= 90)
  \/ (97 <= c /\ c <= 122)
  \/ (48 <= c /\ c <= 57)
  \/ c = 47 \/ c = 43 \/ c = 46

\* matches!(c, 'A'..='Z' | 'a'..='z' | '0'..='9' | '/' | '+' | '.' | '-')
is_char_valid(c) ==
  \/ (Code["A"] <= c /\ c <= Code["Z"])
  \/ (Code["a"] <= c /\ c <= Code["z"])
  \/ (Code["0"] <= c /\ c <= Code["9"])
  \/ c = Code["/"] \/ c = Code["+"] \/ c = Code["."] \/ c = Code["-"]

RECURSIVE ValidFrom(_, _)
ValidFrom(s, i) ==
  IF i > Len(s) THEN Ok(<<>>)
  ELSE IF ~is_char_valid(s[i]) THEN InvalidChar(s[i])
  ELSE ValidFrom(s, i + 1)

RECURSIVE ValidDownFrom(_, _)
ValidDownFrom(s, i) ==
  IF i < 1 THEN Ok(<<>>)
  ELSE IF ~is_char_valid(s[i]) THEN InvalidChar(s[i])
  ELSE ValidDownFrom(s, i - 1)

\* assert_valid_value scanning from the last character to the first.
assert_valid_value_from_right(s) == ValidDownFrom(s, Len(s))

\* The scan of input.chars(), returning at the first character that is not valid.
assert_valid_value(s) == ValidFrom(s, 1)

\* Value::new with the character check placed before the length check.
new_chars_first(s) ==
  IF assert_valid_value(s).tag # "Ok" THEN assert_valid_value(s)
  ELSE IF str_len(s) > MAX_LENGTH THEN TooLong
  ELSE Ok(s)

\* Value::new with the length check left out.
new_no_length_check(s) ==
  IF assert_valid_value(s).tag # "Ok" THEN assert_valid_value(s) ELSE Ok(s)

\* Value::new: the length check, then the character check, then Ok(Self(input)).
new(s) ==
  LET checked == assert_valid_value(s)
  IN  IF str_len(s) > MAX_LENGTH THEN TooLong
      ELSE IF checked.tag # "Ok" THEN checked
      ELSE Ok(s)

(***************************************************************************)
(* Accessors                                                               *)
(***************************************************************************)

\* Value::as_str: self.0, the text the Value wraps.
as_str(v) == v

\* Value::as_bytes.
as_bytes(v) == str_as_bytes(as_str(v))

\* Value::len.
len(v) == str_len(as_str(v))

\* Value::is_empty.
is_empty(v) == str_is_empty(as_str(v))

\* AsRef<str> for Value.
as_ref(v) == as_str(v)

\* fmt::Display for Value: f.write_str(self.as_str()).
fmt(v) == as_str(v)

(***************************************************************************)
(* u32 arithmetic and str::parse::<u32>                                    *)
(***************************************************************************)

Limb == 2 ^ 16

\* u32::checked_mul(10) on <<hi, lo>>: <<>> on overflow, else <<product>>.
checked_mul10(n) ==
  LET l == n[2] * 10
      h == n[1] * 10 + (l \div Limb)
  IN  IF h >= Limb THEN <<>> ELSE << <<h, l % Limb>> >>

\* u32::checked_add(d) for a digit d on <<hi, lo>>.
checked_add(n, d) ==
  LET l == n[2] + d
      h == n[1] + (l \div Limb)
  IN  IF h >= Limb THEN <<>> ELSE << <<h, l % Limb>> >>

\* char::to_digit(10): <<>> for a character that is no decimal digit.
to_digit(c) == IF Code["0"] <= c /\ c <= Code["9"] THEN <<c - Code["0"]>> ELSE <<>>

RECURSIVE ParseFrom(_, _, _)
ParseFrom(s, i, acc) ==
  IF i > Len(s) THEN Ok(acc)
  ELSE IF to_digit(s[i]) = <<>> THEN [tag |-> "InvalidDigit", val |-> <<>>]
  ELSE IF checked_mul10(acc) = <<>> THEN [tag |-> "PosOverflow", val |-> <<>>]
  ELSE IF checked_add(checked_mul10(acc)[1], to_digit(s[i])[1]) = <<>>
    THEN [tag |-> "PosOverflow", val |-> <<>>]
  ELSE ParseFrom(s, i + 1, checked_add(checked_mul10(acc)[1], to_digit(s[i])[1])[1])

\* str::parse::<u32>() (u32::from_str_radix(s, 10)): an optional leading '+',
\* then digits accumulated with checked multiplication and addition.
parse(s) ==
  IF Len(s) = 0 THEN [tag |-> "Empty", val |-> <<>>]
  ELSE IF Len(s) = 1 /\ s[1] \in {Code["+"], Code["-"]}
    THEN [tag |-> "InvalidDigit", val |-> <<>>]
  ELSE IF s[1] = Code["+"] THEN ParseFrom(s, 2, <<0, 0>>)
  ELSE ParseFrom(s, 1, <<0, 0>>)

(***************************************************************************)
(* Value::decimal                                                          *)
(***************************************************************************)

RECURSIVE DigitsFrom(_, _)
DigitsFrom(s, i) ==
  IF i > Len(s) THEN Ok(<<>>)
  ELSE IF ~(Code["0"] <= s[i] /\ s[i] <= Code["9"]) THEN InvalidChar(s[i])
  ELSE DigitsFrom(s, i + 1)

RECURSIVE DigitsDownFrom(_, _)
DigitsDownFrom(s, i) ==
  IF i < 1 THEN Ok(<<>>)
  ELSE IF ~(Code["0"] <= s[i] /\ s[i] <= Code["9"]) THEN InvalidChar(s[i])
  ELSE DigitsDownFrom(s, i - 1)

\* The digit loop of decimal() scanning from the last character to the first.
all_digits_from_right(s) == DigitsDownFrom(s, Len(s))

\* The loop of decimal(): the first character that is not '0'..='9'.
all_digits(s) == DigitsFrom(s, 1)

\* str::starts_with(char).
starts_with(s, c) == Len(s) >= 1 /\ s[1] = c

\* The leading-zero test without its `value.len() > 1`.
leading_zero_any_length(s) == starts_with(s, Code["0"])

\* value.starts_with('0') && value.len() > 1
leading_zero(s) == starts_with(s, Code["0"]) /\ str_len(s) > 1

\* The parse with its error mapped to ParseError::Empty.
parse_map_err_empty(s) == IF parse(s).tag = "Ok" THEN parse(s) ELSE Empty

\* value.parse().map_err(|_| ParseError::TooLong)
parse_map_err(s) == IF parse(s).tag = "Ok" THEN parse(s) ELSE TooLong

\* Value::decimal with the leading-zero test placed before the digit loop.
decimal_zero_first(v) ==
  IF str_is_empty(as_str(v)) THEN Empty
  ELSE IF leading_zero(as_str(v)) THEN InvalidChar(Code["0"])
  ELSE IF all_digits(as_str(v)).tag # "Ok" THEN all_digits(as_str(v))
  ELSE parse_map_err(as_str(v))

\* Value::decimal: empty, then non-digit, then leading zero, then the parse.
decimal(v) ==
  IF str_is_empty(as_str(v)) THEN Empty
  ELSE IF all_digits(as_str(v)).tag # "Ok" THEN all_digits(as_str(v))
  ELSE IF leading_zero(as_str(v)) THEN InvalidChar(Code["0"])
  ELSE parse_map_err(as_str(v))

\* is_decimal answering by the digit loop alone.
is_decimal_digits_only(v) ==
  ~str_is_empty(as_str(v)) /\ all_digits(as_str(v)).tag = "Ok"

\* Value::is_decimal: self.decimal().is_ok()
is_decimal(v) == decimal(v).tag = "Ok"

(***************************************************************************)
(* Conversions                                                             *)
(***************************************************************************)

\* TryFrom<&str> for Value: Self::new(input)
Value_try_from(s) == new(s)

\* The conversion parsing the text itself: value.as_str().parse().
Decimal_try_from_ref_parse(v) == parse_map_err(as_str(v))

\* TryFrom<&Value> for Decimal: value.decimal()
Decimal_try_from_ref(v) == decimal(v)

\* TryFrom<Value> for Decimal: Decimal::try_from(&value)
Decimal_try_from(v) == Decimal_try_from_ref(v)

(***************************************************************************)
(* Value::b64_decode: Encoding::B64.decode(self.as_str(), buf)             *)
(***************************************************************************)

\* The 6-bit value of a character of the unpadded standard alphabet
\* A-Z a-z 0-9 + /, or -1 for any other character.
sextet(c) ==
  IF Code["A"] <= c /\ c <= Code["Z"] THEN c - Code["A"]
  ELSE IF Code["a"] <= c /\ c <= Code["z"] THEN c - Code["a"] + 26
  ELSE IF Code["0"] <= c /\ c <= Code["9"] THEN c - Code["0"] + 52
  ELSE IF c = Code["+"] THEN 62
  ELSE IF c = Code["/"] THEN 63
  ELSE -1

RECURSIVE DecodeFrom(_, _)
DecodeFrom(x, i) ==
  LET n == Len(x) - i + 1
  IN  IF n <= 0 THEN <<>>
      ELSE IF n = 2 THEN <<x[i] * 4 + (x[i + 1] \div 16)>>
      ELSE IF n = 3
        THEN <<x[i] * 4 + (x[i + 1] \div 16),
               (x[i + 1] % 16) * 16 + (x[i + 2] \div 4)>>
      ELSE <<x[i] * 4 + (x[i + 1] \div 16),
             (x[i + 1] % 16) * 16 + (x[i + 2] \div 4),
             (x[i + 2] % 4) * 64 + x[i + 3]>> \o DecodeFrom(x, i + 4)

\* The decode of the binary transcoder into a buffer of n bytes: the decoded
\* prefix of the buffer, or the transcoder's error.
B64_decode(s, n) ==
  LET x == [i \in 1..Len(s) |-> sextet(s[i])]
      r == Len(s) % 4
  IN  IF \E i \in 1..Len(s) : x[i] < 0
        THEN [tag |-> "InvalidEncoding", val |-> <<>>]
      ELSE IF r = 1 THEN [tag |-> "InvalidEncoding", val |-> <<>>]
      ELSE IF r = 2 /\ x[Len(s)] % 16 # 0
        THEN [tag |-> "InvalidEncoding", val |-> <<>>]
      ELSE IF r = 3 /\ x[Len(s)] % 4 # 0
        THEN [tag |-> "InvalidEncoding", val |-> <<>>]
      ELSE IF n < (Len(s) * 3) \div 4 THEN [tag |-> "InvalidLength", val |-> <<>>]
      ELSE Ok(DecodeFrom(x, 1))

\* Value::b64_decode.
b64_decode(v, n) == B64_decode(as_str(v), n)

(***************************************************************************)
(* Input texts                                                             *)
(***************************************************************************)

\* Every text of at most MaxShortLen characters over ShortChars is tried.
MaxShortLen == 3
\* Texts of up to MAX_LENGTH + Over characters are tried.
Over == 2
\* Texts of at least MAX_LENGTH - Under characters are tried at the long end.
Under == 1

\* The characters texts are made of: the digits, the ends of the letter ranges,
\* the four symbols of the alphabet, the ASCII neighbours of each range, and
\* two characters longer than one byte.
Chars ==
  {Code[ch] : ch \in {"0", "1", "2", "3", "4", "5", "6", "7", "8", "9",
                      "A", "Z", "a", "z", "/", "+", ".", "-",
                      "!", ",", ":", ";", "@", "[", "grave", "{",
                      "e-acute", "euro"}}

ShortChars == {Code[ch] : ch \in {"0", "1", "a", "-", ";", "e-acute"}}

Digits == {Code[ch] : ch \in {"0", "1", "2", "3", "4", "5", "6", "7", "8", "9"}}

Text(names) == [i \in 1..Len(names) |-> Code[names[i]]]

Fill(c, n) == [i \in 1..n |-> c]

\* u32::MAX in decimal.
U32MaxText == Text(<<"4", "2", "9", "4", "9", "6", "7", "2", "9", "5">>)

ShortTexts == UNION {[1..n -> ShortChars] : n \in 0..MaxShortLen}

\* Lengths around MAX_LENGTH.
LongLens == (MAX_LENGTH - Under)..(MAX_LENGTH + Over)

\* Lengths around the ten digits of u32::MAX, and around MAX_LENGTH bytes in
\* characters of one, two and three bytes.
FillLens ==
  {0, 1, 10, 11, MAX_LENGTH \div 3, MAX_LENGTH \div 3 + 1,
   MAX_LENGTH \div 2, MAX_LENGTH \div 2 + 1} \cup LongLens

\* One character repeated.
FillTexts == {Fill(c, n) : c \in Chars, n \in FillLens}

\* Two characters, one of them any character; and one character repeated up
\* to the lengths around MAX_LENGTH, with one place holding another character.
VariedTexts ==
  UNION {{<<c, d>>, <<d, c>>} : c \in {Code["a"], Code["1"], Code["0"]}, d \in Chars}
    \cup
  UNION {{[Fill(c, n) EXCEPT ![p] = d] : p \in {1, n \div 2, n}, d \in ShortChars} :
           c \in {Code["a"], Code["1"]}, n \in LongLens}

\* u32::MAX, its first nine digits, and u32::MAX followed by a digit, with one
\* place holding any digit or a letter.
NearU32Max ==
  LET bases == {SubSeq(U32MaxText, 1, 9), U32MaxText, U32MaxText \o <<Code["0"]>>}
  IN  UNION {{[b EXCEPT ![p] = d] : p \in 1..Len(b), d \in Digits \cup {Code["a"]}} :
               b \in bases}

\* The texts of the tests of value.rs.
TestTexts ==
  {Text(<<"x", ";", "y">>), Text(<<"a", "+", "b", ".", "c", "-", "d">>),
   Text(<<"1", "/", "2">>), Text(<<"x", "X", "x">>), Text(<<"0", "1">>),
   Text(<<"-", "1">>)}

Texts == ShortTexts \cup FillTexts \cup VariedTexts \cup NearU32Max \cup TestTexts

\* Sizes of the buffer handed to b64_decode.
BufLens == {2, (MAX_LENGTH * 3) \div 4}

(***************************************************************************)
(* The state machine: a caller holding one text and the Value made from    *)
(* it, and the last call with its argument and its result.                 *)
(* An absent Value is <<>>, a present one <<text>>.                        *)
(***************************************************************************)

Init ==
  /\ input \in Texts
  /\ value = <<>>
  /\ op = "none"
  /\ arg = 0
  /\ result = NoResult

\* let value = Value::new(input)?
New ==
  LET r == new(input)
  IN  /\ op' = "new"
      /\ arg' = 0
      /\ result' = r
      /\ value' = IF r.tag = "Ok" THEN <<r.val>> ELSE value
      /\ UNCHANGED input

\* let value = Value::try_from(input)?
TryFromStr ==
  LET r == Value_try_from(input)
  IN  /\ op' = "Value::try_from"
      /\ arg' = 0
      /\ result' = r
      /\ value' = IF r.tag = "Ok" THEN <<r.val>> ELSE value
      /\ UNCHANGED input

\* A method taking &self is called on the Value, which it cannot change.
OnValue == value # <<>> /\ UNCHANGED <<input, value>>

AsStr ==
  /\ OnValue
  /\ op' = "as_str" /\ arg' = 0
  /\ result' = Ok(as_str(value[1]))

AsBytes ==
  /\ OnValue
  /\ op' = "as_bytes" /\ arg' = 0
  /\ result' = Ok(as_bytes(value[1]))

GetLen ==
  /\ OnValue
  /\ op' = "len" /\ arg' = 0
  /\ result' = Ok(len(value[1]))

IsEmpty ==
  /\ OnValue
  /\ op' = "is_empty" /\ arg' = 0
  /\ result' = Ok(is_empty(value[1]))

AsRef ==
  /\ OnValue
  /\ op' = "as_ref" /\ arg' = 0
  /\ result' = Ok(as_ref(value[1]))

Display ==
  /\ OnValue
  /\ op' = "fmt" /\ arg' = 0
  /\ result' = Ok(fmt(value[1]))

DecimalCall ==
  /\ OnValue
  /\ op' = "decimal" /\ arg' = 0
  /\ result' = decimal(value[1])

IsDecimal ==
  /\ OnValue
  /\ op' = "is_decimal" /\ arg' = 0
  /\ result' = Ok(is_decimal(value[1]))

DecimalTryFrom ==
  /\ OnValue
  /\ op' = "Decimal::try_from(Value)" /\ arg' = 0
  /\ result' = Decimal_try_from(value[1])

DecimalTryFromRef ==
  /\ OnValue
  /\ op' = "Decimal::try_from(&Value)" /\ arg' = 0
  /\ result' = Decimal_try_from_ref(value[1])

B64Decode ==
  /\ OnValue
  /\ op' = "b64_decode"
  /\ \E n \in BufLens : arg' = n /\ result' = b64_decode(value[1], n)

\* #[derive(Copy, Clone)]: the copy is a Value over the same text.
Copy ==
  /\ OnValue
  /\ op' = "copy" /\ arg' = 0
  /\ result' = Ok(value[1])

Next ==
  \/ New
  \/ TryFromStr
  \/ AsStr
  \/ AsBytes
  \/ GetLen
  \/ IsEmpty
  \/ AsRef
  \/ Display
  \/ DecimalCall
  \/ IsDecimal
  \/ DecimalTryFrom
  \/ DecimalTryFromRef
  \/ B64Decode
  \/ Copy

Spec == Init /\ [][Next]_vars

(***************************************************************************)
(* Vocabulary of the properties, stated apart from the operations above    *)
(***************************************************************************)

\* The alphabet of a value: A-Z, a-z, 0-9, '/', '+', '.', '-'.
Alphabet ==
  (Code["A"]..Code["Z"]) \cup (Code["a"]..Code["z"]) \cup (Code["0"]..Code["9"])
    \cup {Code["/"], Code["+"], Code["."], Code["-"]}

InAlphabet(s) == \A i \in 1..Len(s) : s[i] \in Alphabet

\* The byte length of a text, the number of bytes of its UTF-8 encoding: one
\* for each character, one more for each from U+0080 on, one more for each
\* from U+0800 on, and one more for each from U+10000 on.
ByteLength(s) ==
  Len(s) + Cardinality({i \in 1..Len(s) : s[i] >= 128})
         + Cardinality({i \in 1..Len(s) : s[i] >= 2048})
         + Cardinality({i \in 1..Len(s) : s[i] >= 65536})

\* The leftmost place of s that satisfies Bad.
Leftmost(s, Bad(_)) ==
  CHOOSE i \in 1..Len(s) : Bad(i) /\ \A j \in 1..(i - 1) : ~Bad(j)

OutsideAlphabet(s, i) == s[i] \notin Alphabet

NonDigit(s, i) == s[i] \notin Digits

DigitOnly(s) == \A i \in 1..Len(s) : s[i] \in Digits

\* Non-empty, digit-only, and without a leading zero unless it is exactly "0".
CanonicalDecimal(s) ==
  Len(s) >= 1 /\ DigitOnly(s) /\ (Len(s) > 1 => s[1] # Code["0"])

\* s and t have the same length and s comes after t digit by digit.
RECURSIVE DigitsAfter(_, _, _)
DigitsAfter(s, t, i) ==
  IF i > Len(s) THEN FALSE
  ELSE IF s[i] # t[i] THEN s[i] > t[i]
  ELSE DigitsAfter(s, t, i + 1)

\* The number a canonical decimal text denotes exceeds 2^32 - 1.
ExceedsU32(s) ==
  Len(s) > Len(U32MaxText)
    \/ (Len(s) = Len(U32MaxText) /\ DigitsAfter(s, U32MaxText, 1))

\* The decimal digits of the u32 <<hi, lo>>, by long division by ten.
RECURSIVE DecimalText(_)
DecimalText(n) ==
  LET t == (n[1] % 10) * Limb + n[2]
      q == <<n[1] \div 10, t \div 10>>
  IN  IF q = <<0, 0>> THEN <<Code["0"] + (t % 10)>>
      ELSE Append(DecimalText(q), Code["0"] + (t % 10))

IsU32(n) == n \in (0..(Limb - 1)) \X (0..(Limb - 1))

(***************************************************************************)
(* Properties                                                              *)
(***************************************************************************)

\* C1: Value::new(text) succeeds exactly when the text is at most 48 bytes long
\* and every character of it is in the alphabet; the Value it returns wraps
\* the input text, and as_str() returns that text character for character.
C1_NewSucceedsIffValid ==
  /\ op = "new" =>
       /\ result.tag = "Ok" <=> (ByteLength(input) <= 48 /\ InAlphabet(input))
       /\ result.tag = "Ok" => (result.val = input /\ value = <<input>>)
  /\ op = "as_str" => result = Ok(input)

\* as_str() has returned a 48-byte text that holds a '-' among letters.
C1_Witness ==
  /\ op = "as_str"
  /\ ByteLength(input) = 48
  /\ \E i \in 1..Len(input) : input[i] = Code["-"]
  /\ \E i \in 1..Len(input) : input[i] = Code["a"]
  /\ result.val = input

\* C2: Value::new fails with TooLong on every text longer than 48 bytes, also
\* when the text holds a character outside the alphabet.
C2_TooLongFirst ==
  (op = "new" /\ ByteLength(input) > 48) => result = TooLong

\* Value::new has answered TooLong on a text that is too long and whose first
\* character is outside the alphabet.
C2_Witness ==
  /\ op = "new"
  /\ ByteLength(input) > 48
  /\ input[1] \notin Alphabet
  /\ result = TooLong

\* C3: on a text of at most 48 bytes with a character outside the alphabet,
\* Value::new fails with InvalidChar of the leftmost such character.
C3_FirstInvalidChar ==
  (op = "new" /\ ByteLength(input) <= 48 /\ ~InAlphabet(input)) =>
    result = InvalidChar(input[Leftmost(input, LAMBDA i : OutsideAlphabet(input, i))])

\* Value::new has named the first of two different characters outside the
\* alphabet.
C3_Witness ==
  /\ op = "new"
  /\ result.tag = "InvalidChar"
  /\ \E i, j \in 1..Len(input) :
       /\ i < j
       /\ input[i] \notin Alphabet /\ input[j] \notin Alphabet
       /\ input[i] # input[j]
       /\ result.val = <<input[i]>>

\* C4 as stated: decimal() succeeds with the number the text denotes on every
\* non-empty digit-only text without a leading zero (or exactly "0").
C4_AsStated ==
  (op = "decimal" /\ CanonicalDecimal(value[1])) =>
    (result.tag = "Ok" /\ DecimalText(result.val) = value[1])

\* C4 amended: decimal() succeeds with the number the text denotes on every
\* non-empty digit-only text without a leading zero (or exactly "0") that
\* denotes at most 2^32 - 1; "0" gives 0, "1" gives 1, "4294967295" gives
\* 2^32 - 1.
C4_CanonicalInRange ==
  op = "decimal" =>
    /\ (CanonicalDecimal(value[1]) /\ ~ExceedsU32(value[1])) =>
         /\ result.tag = "Ok"
         /\ IsU32(result.val)
         /\ DecimalText(result.val) = value[1]
    /\ value[1] = Text(<<"0">>) => result = Ok(<<0, 0>>)
    /\ value[1] = Text(<<"1">>) => result = Ok(<<0, 1>>)
    /\ value[1] = U32MaxText => result = Ok(<<Limb - 1, Limb - 1>>)

\* decimal() has returned 2^32 - 1 for "4294967295".
C4_Witness ==
  /\ op = "decimal"
  /\ value = <<U32MaxText>>
  /\ result = Ok(<<Limb - 1, Limb - 1>>)

\* C5: decimal() answers TooLong exactly on the non-empty digit-only texts
\* without a leading zero that denote more than 2^32 - 1; a text that passed
\* the digit and leading-zero checks gives a number or TooLong, and its parse
\* fails by overflow alone.
C5_TooLongIffOverflow ==
  op = "decimal" =>
    /\ result = TooLong <=> (CanonicalDecimal(value[1]) /\ ExceedsU32(value[1]))
    /\ CanonicalDecimal(value[1]) =>
         /\ result.tag \in {"Ok", "TooLong"}
         /\ parse(value[1]).tag \in {"Ok", "PosOverflow"}

\* decimal() has answered TooLong on "4294967296".
C5_Witness ==
  /\ op = "decimal"
  /\ value = <<[U32MaxText EXCEPT ![10] = Code["6"]]>>
  /\ result = TooLong

\* C6: decimal() rejects in a fixed order: the empty text with Empty; else a
\* text with a non-digit with InvalidChar of its first non-digit; else a text
\* longer than one character that starts with '0' with InvalidChar('0'), also
\* when its digits would overflow; "0" is accepted as 0.
C6_DecimalRuleOrder ==
  op = "decimal" =>
    LET s == value[1]
    IN  /\ Len(s) = 0 => result = Empty
        /\ (Len(s) > 0 /\ ~DigitOnly(s)) =>
             result = InvalidChar(s[Leftmost(s, LAMBDA i : NonDigit(s, i))])
        /\ (Len(s) > 1 /\ DigitOnly(s) /\ s[1] = Code["0"]) =>
             result = InvalidChar(Code["0"])
        /\ s = Text(<<"0">>) => result = Ok(<<0, 0>>)

\* decimal() has answered InvalidChar('0') on a text of more than ten digits
\* that starts with '0'.
C6_Witness ==
  /\ op = "decimal"
  /\ Len(value[1]) > Len(U32MaxText)
  /\ DigitOnly(value[1])
  /\ value[1][1] = Code["0"]
  /\ result = InvalidChar(Code["0"])

\* The place i of s breaks a rule of the decimal interpretation: it holds a
\* non-digit, or it is the leading '0' of a text of more than one character.
BreaksDecimalRule(s, i) ==
  s[i] \notin Digits \/ (i = 1 /\ s[1] = Code["0"] /\ Len(s) > 1)

\* C7 as stated: an InvalidChar(c) of Value::new or of decimal() names the
\* leftmost character that breaks a rule in force: no character to its left
\* is outside the alphabet (construction), is a non-digit or is a leading
\* zero (decimal interpretation).
C7_AsStated ==
  /\ (op \in {"new", "Value::try_from"} /\ result.tag = "InvalidChar") =>
       result.val = <<input[Leftmost(input, LAMBDA i : OutsideAlphabet(input, i))]>>
  /\ (op \in {"decimal", "Decimal::try_from(Value)", "Decimal::try_from(&Value)"}
        /\ result.tag = "InvalidChar") =>
       result.val =
         <<value[1][Leftmost(value[1], LAMBDA i : BreaksDecimalRule(value[1], i))]>>

\* C7 amended: an InvalidChar(c) of Value::new names the leftmost character
\* outside the alphabet; an InvalidChar(c) of decimal() names the leftmost
\* non-digit when the text has one, also when a leading zero stands to its
\* left, and names the leading '0' only when every character is a digit.
C7_FirstViolationPerRule ==
  /\ (op \in {"new", "Value::try_from"} /\ result.tag = "InvalidChar") =>
       result.val = <<input[Leftmost(input, LAMBDA i : OutsideAlphabet(input, i))]>>
  /\ (op \in {"decimal", "Decimal::try_from(Value)", "Decimal::try_from(&Value)"}
        /\ result.tag = "InvalidChar") =>
       IF DigitOnly(value[1])
         THEN /\ result.val = <<Code["0"]>>
              /\ value[1][1] = Code["0"]
              /\ Len(value[1]) > 1
         ELSE result.val =
                <<value[1][Leftmost(value[1], LAMBDA i : NonDigit(value[1], i))]>>

\* decimal() has named a non-digit that stands to the right of a leading zero
\* and of another non-digit.
C7_Witness ==
  /\ op = "decimal"
  /\ result.tag = "InvalidChar"
  /\ Len(value[1]) = 3
  /\ value[1][1] = Code["0"]
  /\ value[1][2] \notin Digits
  /\ value[1][3] \notin Digits
  /\ value[1][2] # value[1][3]
  /\ result.val = <<value[1][2]>>

\* C8: is_decimal() is true exactly when decimal() succeeds, on every Value.
C8_IsDecimalIffDecimalOk ==
  op = "is_decimal" =>
    /\ result.val <=> decimal(value[1]).tag = "Ok"
    /\ result.val <=> (CanonicalDecimal(value[1]) /\ ~ExceedsU32(value[1]))

\* is_decimal() has answered false on a digit-only text without a leading zero.
C8_Witness ==
  /\ op = "is_decimal"
  /\ CanonicalDecimal(value[1])
  /\ result = Ok(FALSE)

\* C9: Value::try_from(text) gives what Value::new(text) gives, and
\* Decimal::try_from of a Value or of a reference to it gives what decimal()
\* gives.
C9_ConversionsAgree ==
  /\ op = "Value::try_from" =>
       /\ result = new(input)
       /\ result.tag = "Ok" => value = <<new(input).val>>
  /\ op = "Decimal::try_from(Value)" => result = decimal(value[1])
  /\ op = "Decimal::try_from(&Value)" => result = decimal(value[1])

\* Decimal::try_from of the Value "4294967296" has answered TooLong.
C9_Witness ==
  /\ op = "Decimal::try_from(Value)"
  /\ value = <<[U32MaxText EXCEPT ![10] = Code["6"]]>>
  /\ result = TooLong

\* The state holds a Value only over the text it was made from, of at most 48
\* bytes and of alphabet characters; len() and is_empty() report its length
\* and a copy is a Value over the same text.
ValueIntact ==
  value # <<>> =>
    /\ value = <<input>>
    /\ ByteLength(value[1]) <= 48
    /\ InAlphabet(value[1])
    /\ op = "len" => (result.val = ByteLength(input) /\ result.val <= 48)
    /\ op = "is_empty" => (result.val <=> ByteLength(input) = 0)
    /\ op = "as_bytes" => Len(result.val) = ByteLength(input)
    /\ op = "copy" => result.val = input

\* C10: no call changes the text of a Value once it exists; every Value is
\* over the text it was made from, at most 48 bytes long and of alphabet
\* characters only; and a call repeated with the same argument gives the
\* result it gave before.
C10_ValueIsImmutable ==
  [][/\ ValueIntact'
     /\ value # <<>> => value' = value
     /\ (op' = op /\ arg' = arg) => result' = result]_vars

\* decimal() has failed on a Value of 48 bytes, which is still in place.
C10_Witness ==
  /\ op = "decimal"
  /\ result.tag = "InvalidChar"
  /\ value = <<input>>
  /\ ByteLength(value[1]) = 48

=============================================================================
